---- MODULE Spec2Model ----
(***************************************************************************)
(* A model of blob.py: the chunk codec (Blob), the group with its lazy     *)
(* signature index (BlobGroup) and the sequential stream (BlobFile).       *)
(*                                                                         *)
(* Python values are records [t, n, b]: t is the Python type, n the value  *)
(* of an int or bool, b the bytes of a bytes object or the code points of  *)
(* a str.  A byte is a number in 0..255; a byte string is a sequence.      *)
(* A signature is a str, kept as the sequence of its code points.          *)
(* A raised exception is the field err of an operation's result ("" when   *)
(* nothing was raised).                                                    *)
(***************************************************************************)
EXTENDS Integers, Sequences, FiniteSets, TLC

VARIABLES
    pc,          \* position of the modelled caller in its script
    args,        \* arguments of the constructor call the caller makes
    err,         \* exception that reached the caller ("" if none)
    blob,        \* codec: the Blob under construction / built
    wire,        \* codec: the bytes Blob.encode produced
    back,        \* codec: result of reading wire back ([u, pos, err])
    got,         \* codec: result of the last getAs ([err, v])
    grp,         \* group: the BlobGroup's fields data and dict
    res,         \* group: result of the last accessor call
    hist,        \* group: what the caller did since the index was last cleared
    fd,          \* stream: the channel [bytes, pos, readable, writable]
    file,        \* stream: the BlobFile's fields [spec, blobheader, header]
    out,         \* stream: values returned by read() / __next__, in call order
    src          \* stream: what the producer of the channel put on it

vars == <<pc, args, err, blob, wire, back, got, grp, res, hist, fd, file, out, src>>

codecVars == <<blob, wire, back, got>>
groupVars == <<grp, res, hist>>
streamVars == <<fd, file, out, src>>

----------------------------------------------------------------------------
(* Python values *)

PyNone == [t |-> "none", n |-> 0, b |-> <<>>]
PyBytes(s) == [t |-> "bytes", n |-> 0, b |-> s]
PyInt(i) == [t |-> "int", n |-> i, b |-> <<>>]
PyBool(x) == [t |-> "bool", n |-> IF x THEN 1 ELSE 0, b |-> <<>>]
PyStr(s) == [t |-> "str", n |-> 0, b |-> s]
\* str( b'...' ): the textual rendering of a bytes object, never empty
PyRepr(s) == [t |-> "repr", n |-> 0, b |-> s]

\* Python truthiness of a value that is not a Blob
Truthy(v) ==
    CASE v.t = "none" -> FALSE
      [] v.t \in {"int", "bool"} -> v.n # 0
      [] v.t \in {"bytes", "str"} -> Len(v.b) > 0
      [] OTHER -> TRUE

\* isinstance( v, int ): bool is a subclass of int
IsInstanceInt(v) == v.t \in {"int", "bool"}

Min(a, b) == IF a < b THEN a ELSE b

RECURSIVE Concat(_)
Concat(ss) == IF ss = <<>> THEN <<>> ELSE Head(ss) \o Concat(Tail(ss))

----------------------------------------------------------------------------
(* int.to_bytes / int.from_bytes, big-endian *)

\* the n low-order bytes of v, most significant first (floor division, so a
\* negative v comes out in two's complement)
RECURSIVE BigEndian(_, _)
BigEndian(v, n) ==
    IF n = 0 THEN <<>> ELSE Append(BigEndian(v \div 256, n - 1), v % 256)

\* what is left of v above its n low-order bytes
RECURSIVE HighPart(_, _)
HighPart(v, n) == IF n = 0 THEN v ELSE HighPart(v \div 256, n - 1)

\* v.to_bytes( n, byteorder='big', signed=signed )
ToBytes(v, n, signed) ==
    LET b == BigEndian(v, n)
        fits == IF signed
                THEN IF v >= 0
                     THEN HighPart(v, n) = 0 /\ (n = 0 \/ b[1] < 128)
                     ELSE HighPart(v, n) = -1 /\ (n = 0 \/ b[1] >= 128)
                ELSE v >= 0 /\ HighPart(v, n) = 0
    IN  IF n < 0 THEN [err |-> "ValueError", b |-> <<>>]
        ELSE IF fits THEN [err |-> "", b |-> b]
        ELSE [err |-> "OverflowError", b |-> <<>>]

RECURSIVE Unsigned(_)
Unsigned(b) ==
    IF b = <<>> THEN 0 ELSE Unsigned(SubSeq(b, 1, Len(b) - 1)) * 256 + b[Len(b)]

RECURSIVE Radix(_)
Radix(n) == IF n = 0 THEN 1 ELSE 256 * Radix(n - 1)

\* FromBytes as it would be with signed=True, the way the payload was written
FromBytes_signed(b) ==
    IF b # <<>> /\ b[1] >= 128 THEN Unsigned(b) - Radix(Len(b)) ELSE Unsigned(b)

\* int.from_bytes( b, byteorder='big' ): unsigned
RECURSIVE FromBytes(_)
FromBytes(b) ==
    IF b = <<>> THEN 0
    ELSE FromBytes(SubSeq(b, 1, Len(b) - 1)) * 256 + b[Len(b)]

\* the result of FromBytes stays below 2^31
Representable(b) == Len(b) <= 3 \/ (Len(b) = 4 /\ b[1] < 128)

----------------------------------------------------------------------------
(* str.encode() / bytes.decode(): UTF-8, code points below 0x800 *)

RECURSIVE Utf8Encode(_)
Utf8Encode(s) ==
    IF s = <<>> THEN <<>>
    ELSE LET c == Head(s)
         IN  (IF c < 128 THEN <<c>>
              ELSE <<192 + (c \div 64), 128 + (c % 64)>>) \o Utf8Encode(Tail(s))

\* [ok, s]: ok is FALSE where decode() raises UnicodeDecodeError.  Lead bytes
\* of three- and four-byte forms (0xE0 and above) are taken as undecodable.
RECURSIVE Utf8Decode(_)
Utf8Decode(b) ==
    IF b = <<>> THEN [ok |-> TRUE, s |-> <<>>]
    ELSE IF b[1] < 128
    THEN LET r == Utf8Decode(Tail(b))
         IN  [ok |-> r.ok, s |-> <<b[1]>> \o r.s]
    ELSE IF b[1] >= 194 /\ b[1] <= 223 /\ Len(b) >= 2 /\ b[2] >= 128 /\ b[2] <= 191
    THEN LET r == Utf8Decode(SubSeq(b, 3, Len(b)))
         IN  [ok |-> r.ok, s |-> <<(b[1] - 192) * 64 + (b[2] - 128)>> \o r.s]
    ELSE [ok |-> FALSE, s |-> <<>>]

\* sig.encode( 'ASCII' )
AsciiEncode(s) ==
    IF \A i \in 1..Len(s) : s[i] < 128
    THEN [err |-> "", b |-> s]
    ELSE [err |-> "UnicodeEncodeError", b |-> <<>>]

----------------------------------------------------------------------------
(* Blob *)

\* None, as returned by read() at end of file; also the shape every Blob and
\* BlobGroup record has
NoneUnit ==
    [cls |-> "None", sig |-> <<>>, content |-> PyNone, contentRaw |-> PyNone,
     size |-> 0, data |-> <<>>, terminator |-> <<>>]

\* Blob.getAs( dtype ); dtype is "int", "str", "bytes", "bool", "none" (None)
\* or anything else
RECURSIVE Blob_getAs(_, _)
Blob_getAs(self, dtype) ==
    CASE dtype = "int" ->
            IF self.contentRaw.t = "none"
            THEN [err |-> "TypeError", v |-> PyNone]
            ELSE [err |-> "", v |-> PyInt(FromBytes(self.contentRaw.b))]
      [] dtype = "str" ->
            IF self.contentRaw.t = "none"
            THEN [err |-> "", v |-> PyStr(<<78, 111, 110, 101>>)]
            ELSE LET d == Utf8Decode(self.contentRaw.b)
                 IN  IF d.ok THEN [err |-> "", v |-> PyStr(d.s)]
                     ELSE [err |-> "", v |-> PyRepr(self.contentRaw.b)]
      [] dtype = "bytes" -> [err |-> "", v |-> self.contentRaw]
      [] dtype = "bool" ->
            LET i == Blob_getAs(self, "int")
            IN  IF i.err # "" THEN i ELSE [err |-> "", v |-> PyBool(i.v.n # 0)]
      [] dtype = "none" -> [err |-> "", v |-> PyNone]
      [] OTHER -> [err |-> "", v |-> self.contentRaw]

\* self.content = <the value getAs returned>; g is getAs's result
SetContent(self, g) ==
    IF g.err # "" THEN [err |-> g.err, blob |-> self]
    ELSE [err |-> "", blob |-> [self EXCEPT !.content = g.v]]

\* Blob.convert( dtype ): [err, blob]
Blob_convert(self, dtype) == SetContent(self, Blob_getAs(self, dtype))

\* lines 45-59 of Blob.__init__: contentRaw and size by the type of content,
\* [err, b, size]; an int is tested before a bool, and a bool is an int
RawOf(content, size) ==
    CASE content.t = "bytes" -> [err |-> "", b |-> content, size |-> size]
      [] IsInstanceInt(content) ->
            LET sz == IF size.t = "none" THEN PyInt(4) ELSE size
                tb == ToBytes(content.n, sz.n, TRUE)
            IN  [err |-> tb.err, b |-> PyBytes(tb.b), size |-> sz]
      [] content.t = "bool" ->
            LET sz == IF size.t = "none" THEN PyInt(1) ELSE size
                tb == ToBytes(content.n, sz.n, TRUE)
            IN  [err |-> tb.err, b |-> PyBytes(tb.b), size |-> sz]
      [] content.t = "str" ->
            [err |-> "", b |-> PyBytes(Utf8Encode(content.b)), size |-> size]
      [] OTHER -> [err |-> "", b |-> PyNone, size |-> PyInt(0)]

\* lines 61-65 of Blob.__init__, raw being what lines 45-59 left
Blob_finish(sig, content, raw, dtype) ==
    LET made == [cls |-> "Blob", sig |-> sig, content |-> content,
                 contentRaw |-> raw.b,
                 size |-> IF raw.size.t = "none" THEN Len(raw.b.b) ELSE raw.size.n,
                 data |-> <<>>, terminator |-> <<>>]
    IN  IF raw.err # "" THEN [err |-> raw.err, blob |-> NoneUnit]
        ELSE IF dtype # "" THEN Blob_convert(made, dtype)
        ELSE [err |-> "", blob |-> made]

\* Blob.__init__( sig, content, size, dtype ): [err, blob].  size is PyNone or
\* a PyInt; dtype is "" when not given.
Blob_init(sig, content, size, dtype) ==
    Blob_finish(sig, content, RawOf(content, size), dtype)

\* Blob.__int__: [err, n]
Blob_int(self) ==
    IF IsInstanceInt(self.content) THEN [err |-> "", n |-> self.content.n]
    ELSE LET g == Blob_getAs(self, "int")
         IN  [err |-> g.err, n |-> g.v.n]

\* Blob.__bool__: [err, v].  BlobGroup inherits it: Blob comes before UserList
\* in its bases.
Blob_bool(self) ==
    LET i == Blob_int(self)
    IN  [err |-> i.err, v |-> i.n # 0]

\* Blob.encode(): [err, b]
Blob_encode(self) ==
    LET s == AsciiEncode(self.sig)
        z == ToBytes(self.size, 4, FALSE)
    IN  IF s.err # "" THEN s
        ELSE IF z.err # "" THEN z
        ELSE IF self.size # 0
        THEN IF self.contentRaw.t = "none"
             THEN [err |-> "TypeError", b |-> <<>>]
             ELSE [err |-> "", b |-> s.b \o z.b \o self.contentRaw.b]
        ELSE [err |-> "", b |-> s.b \o z.b]

----------------------------------------------------------------------------
(* BlobGroup *)

\* the rest of BlobGroup.__init__ once Blob.__init__ returned b
AsGroup(b, children) ==
    IF b.err # "" THEN b
    ELSE [err |-> "", blob |-> [b.blob EXCEPT !.cls = "BlobGroup", !.data = children]]

\* BlobGroup.__init__( sig, children, content ): [err, blob].  The dict field
\* starts empty and is kept with the group under study (grp), not here.
BlobGroup_init(sig, children, content) ==
    AsGroup(Blob_init(sig, content, PyNone, ""), children)

\* output.extend( ... ) of two encodings, either of which may have raised
Extend(x, y) ==
    IF x.err # "" THEN x
    ELSE IF y.err # "" THEN y
    ELSE [err |-> "", b |-> x.b \o y.b]

\* Blob( ... ).encode() where the constructor returned h
EncodeMade(h) ==
    IF h.err # "" THEN [err |-> h.err, b |-> <<>>] ELSE Blob_encode(h.blob)

RECURSIVE Unit_encode(_)
RECURSIVE EncodeAll(_)

\* BlobGroup.encode(): [err, b]
BlobGroup_encode(self) ==
    Extend(EncodeMade(Blob_init(self.sig, PyInt(Len(self.data)), PyNone, "")),
           EncodeAll(self.data))

\* the loop of BlobGroup.encode over the children
EncodeAll(us) ==
    IF us = <<>> THEN [err |-> "", b |-> <<>>]
    ELSE Extend(Unit_encode(Head(us)), EncodeAll(Tail(us)))

\* b.encode() on whatever b is
Unit_encode(u) ==
    CASE u.cls = "BlobGroup" -> BlobGroup_encode(u)
      [] u.cls = "Blob" -> Blob_encode(u)
      [] OTHER -> [err |-> "AttributeError", b |-> <<>>]

\* BlobGroup.clearDict(): the new value of dict
clearDict(g) == <<>>

\* genDict as it would be without the "if not self.dict" guard: the table is
\* made anew at every access
genDict_rebuild(g) ==
    [s \in {g.data[i].sig : i \in 1..Len(g.data)} |->
        g.data[CHOOSE i \in 1..Len(g.data) :
                  /\ g.data[i].sig = s
                  /\ \A j \in 1..(i - 1) : g.data[j].sig # s]]

\* BlobGroup.genDict(): the new value of dict.  setdefault keeps the first
\* child of each signature.
genDict(g) ==
    IF DOMAIN g.dict = {}
    THEN [s \in {g.data[i].sig : i \in 1..Len(g.data)} |->
            g.data[CHOOSE i \in 1..Len(g.data) :
                      /\ g.data[i].sig = s
                      /\ \A j \in 1..(i - 1) : g.data[j].sig # s]]
    ELSE g.dict

----------------------------------------------------------------------------
(* BlobFile *)

\* the btype spec.get( sig ) gives: "list" (the type list), "count" (an int n),
\* "until" (a str s), "type" (a type ty), "none" (no entry, or None)
BtList == [k |-> "list", n |-> 0, s |-> <<>>, ty |-> ""]
BtCount(n) == [k |-> "count", n |-> n, s |-> <<>>, ty |-> ""]
BtUntil(s) == [k |-> "until", n |-> 0, s |-> s, ty |-> ""]
BtType(ty) == [k |-> "type", n |-> 0, s |-> <<>>, ty |-> ty]
BtNone == [k |-> "none", n |-> 0, s |-> <<>>, ty |-> ""]

\* spec.get( sig )
SpecGet(spec, sig) == IF sig \in DOMAIN spec THEN spec[sig] ELSE BtNone

\* fh.read( n ) at offset pos: at most n bytes, fewer at end of file
FdRead(bytes, pos, n) == SubSeq(bytes, pos + 1, Min(pos + n, Len(bytes)))

\* IsTerminator as it would be had line 399 read "blob != btype": a Blob is
\* never equal to a str
IsTerminator_obj(u, marker) == FALSE

\* blob.sig != btype, line 399, negated: the unit just read ends the group
IsTerminator(u, marker) == u.sig = marker

\* EqNone as it would be had UserList.__eq__ taken None for an empty list
EqNone_falsy(u) ==
    CASE u.cls = "None" -> TRUE
      [] u.cls = "BlobGroup" -> u.data = <<>>
      [] OTHER -> FALSE

\* next == None, line 415: Blob compares by identity, BlobGroup as UserList
\* compares its data (a list) with None
EqNone(u) ==
    CASE u.cls = "None" -> TRUE
      [] u.cls = "BlobGroup" -> FALSE
      [] OTHER -> FALSE

RECURSIVE BlobFile_read(_, _, _)
RECURSIVE ReadCount(_, _, _, _, _)
RECURSIVE ReadUntil(_, _, _, _, _)

\* grp.append( <what self.read() returned> ) and the rest of the for loop
CountStep(bytes, spec, n, acc, r) ==
    IF r.err # "" THEN [err |-> r.err, pos |-> r.pos, data |-> acc, term |-> <<>>]
    ELSE ReadCount(bytes, r.pos, spec, n - 1, Append(acc, r.u))

\* for i in range( n ): grp.append( self.read() ) -- [err, pos, data, term]
ReadCount(bytes, pos, spec, n, acc) ==
    IF n <= 0 THEN [err |-> "", pos |-> pos, data |-> acc, term |-> <<>>]
    ELSE CountStep(bytes, spec, n, acc, BlobFile_read(bytes, pos, spec))

\* lines 399-402 for the unit self.read() just returned
UntilStep(bytes, spec, marker, acc, r) ==
    IF r.err # ""
    THEN [err |-> r.err, pos |-> r.pos, data |-> acc, term |-> <<>>]
    ELSE IF r.u.cls = "None"
    THEN [err |-> "AttributeError", pos |-> r.pos, data |-> acc, term |-> <<>>]
    ELSE IF IsTerminator(r.u, marker)
    THEN [err |-> "", pos |-> r.pos, data |-> acc, term |-> <<r.u>>]
    ELSE ReadUntil(bytes, r.pos, spec, marker, Append(acc, r.u))

\* blob = self.read(); while blob.sig != btype: grp.append( blob ); ...
\* -- [err, pos, data, term]
ReadUntil(bytes, pos, spec, marker, acc) ==
    UntilStep(bytes, spec, marker, acc, BlobFile_read(bytes, pos, spec))

\* return grp: g is what BlobGroup( ... ) returned, c what the loop left
GroupRead(g, c) ==
    IF c.err # "" THEN [err |-> c.err, pos |-> c.pos, u |-> NoneUnit]
    ELSE [err |-> "", pos |-> c.pos,
          u |-> [g.blob EXCEPT !.data = c.data, !.terminator = c.term]]

\* range( int( blob ) ), line 386: n is what int( blob ) returned
ListRead(bytes, pos, spec, sig, n) ==
    IF n.err # "" THEN [err |-> n.err, pos |-> pos, u |-> NoneUnit]
    ELSE GroupRead(BlobGroup_init(sig, <<>>, PyNone),
                   ReadCount(bytes, pos, spec, n.n, <<>>))

\* blob.convert( btype ), line 407: cv is what it returned
Converted(pos, cv) == [err |-> cv.err, pos |-> pos, u |-> cv.blob]

\* lines 382-408 of BlobFile.read, b being the Blob of line 381
Dispatch(bytes, pos, spec, size, b, btype) ==
    CASE btype.k = "list" -> ListRead(bytes, pos, spec, b.sig, Blob_int(b))
      [] btype.k = "count" ->
            GroupRead(BlobGroup_init(b.sig, <<>>, b.content),
                      ReadCount(bytes, pos, spec, btype.n, <<>>))
      [] btype.k = "until" ->
            GroupRead(BlobGroup_init(b.sig, <<>>, b.content),
                      ReadUntil(bytes, pos, spec, btype.s, <<>>))
      [] OTHER ->
            IF size # 0 /\ btype.k # "none"
            THEN Converted(pos, Blob_convert(b, btype.ty))
            ELSE [err |-> "", pos |-> pos, u |-> b]

\* BlobFile.read(): [err, pos, u]; u is NoneUnit at end of file
BlobFile_read(bytes, pos, spec) ==
    LET sigraw == FdRead(bytes, pos, 4)
        sig == Utf8Decode(sigraw)
        sizeraw == FdRead(bytes, pos + Len(sigraw), 4)
        size == FromBytes(sizeraw)
        data == IF size # 0
                THEN PyBytes(FdRead(bytes, pos + Len(sigraw) + Len(sizeraw), size))
                ELSE PyNone
    IN  IF sigraw = <<>> THEN [err |-> "", pos |-> pos, u |-> NoneUnit]
        ELSE IF ~sig.ok
        THEN [err |-> "UnicodeDecodeError", pos |-> pos + Len(sigraw), u |-> NoneUnit]
        ELSE Dispatch(bytes, pos + Len(sigraw) + Len(sizeraw) + Len(data.b), spec, size,
                      Blob_init(sig.s, data, PyNone, "").blob, SpecGet(spec, sig.s))

\* BlobFile.write( blob ) on the channel: [err, bytes]; e is blob.encode()
FdWrite(bytes, e) ==
    IF e.err # "" THEN [err |-> e.err, bytes |-> bytes]
    ELSE [err |-> "", bytes |-> bytes \o e.b]

BlobFile_write(bytes, u) == FdWrite(bytes, Unit_encode(u))

\* "x.content: x.convert( int )" once "x and" gave t
ConvertIf(x, t) ==
    IF t.err # "" THEN [err |-> t.err, blob |-> x]
    ELSE IF t.v /\ Truthy(x.content) THEN Blob_convert(x, "int")
    ELSE [err |-> "", blob |-> x]

\* "if x and x.content: x.convert( int )", lines 321-322: [err, blob]
ConvertHeader(x) ==
    IF x.cls = "None" THEN [err |-> "", blob |-> x] ELSE ConvertIf(x, Blob_bool(x))

\* the comparison of lines 304 and 310, g being x.getAs( int )
Compare(g, v, older) ==
    IF g.err # "" THEN [err |-> g.err, v |-> FALSE]
    ELSE [err |-> "", v |-> IF older THEN g.v.n < v.n ELSE g.v.n > v.n]

\* "v is not None and x.content and x.getAs( int ) < v" (lines 303-304), and
\* with older = FALSE the ">" of lines 309-310: [err, v]
VersionFails(x, v, older) ==
    IF v.t = "none" \/ ~Truthy(x.content) THEN [err |-> "", v |-> FALSE]
    ELSE Compare(Blob_getAs(x, "int"), v, older)

BLOB == <<66, 76, 79, 66>>

InitFail(e, bytes, pos) ==
    [err |-> e, bytes |-> bytes, pos |-> pos,
     blobheader |-> NoneUnit, header |-> NoneUnit]

\* lines 321-324, c1 and c2 being what the two conversions returned
InitDone(bytes, pos, c1, c2) ==
    IF c1.err # "" THEN InitFail(c1.err, bytes, pos)
    ELSE IF c2.err # "" THEN InitFail(c2.err, bytes, pos)
    ELSE [err |-> "", bytes |-> bytes, pos |-> pos,
          blobheader |-> c1.blob, header |-> c2.blob]

InitFinish(bytes, pos, bh, h) ==
    InitDone(bytes, pos, ConvertHeader(bh), ConvertHeader(h))

\* lines 309-311, v2 being the outcome of the version test
ReadInit4(f, r1, r2, v2) ==
    IF v2.err # "" THEN InitFail(v2.err, f.bytes, r2.pos)
    ELSE IF v2.v THEN InitFail("VersionError", f.bytes, r2.pos)
    ELSE InitFinish(f.bytes, r2.pos, r1.u, r2.u)

\* lines 307-308, r2 being what the second self.read() returned
ReadInit3(f, filetype, version, r1, r2) ==
    IF r2.err # "" THEN InitFail(r2.err, f.bytes, r2.pos)
    ELSE IF r2.u.cls = "None" THEN InitFail("AttributeError", f.bytes, r2.pos)
    ELSE IF r2.u.sig # filetype.b THEN InitFail("FileTypeError", f.bytes, r2.pos)
    ELSE ReadInit4(f, r1, r2, VersionFails(r2.u, version, FALSE))

\* lines 303-306, v1 being the outcome of the blob version test
ReadInit2(f, spec, filetype, version, r1, v1) ==
    IF v1.err # "" THEN InitFail(v1.err, f.bytes, r1.pos)
    ELSE IF v1.v THEN InitFail("VersionError", f.bytes, r1.pos)
    ELSE ReadInit3(f, filetype, version, r1, BlobFile_read(f.bytes, r1.pos, spec))

\* lines 301-302, r1 being what the first self.read() returned
ReadInit1(f, spec, filetype, version, blobver, r1) ==
    IF r1.err # "" THEN InitFail(r1.err, f.bytes, r1.pos)
    ELSE IF r1.u.cls = "None" THEN InitFail("AttributeError", f.bytes, r1.pos)
    ELSE IF r1.u.sig # BLOB THEN InitFail("FileTypeError", f.bytes, r1.pos)
    ELSE ReadInit2(f, spec, filetype, version, r1, VersionFails(r1.u, blobver, TRUE))

\* line 316, w2 being the channel after the second write
WriteInit3(f, b1, b2, w2) ==
    IF w2.err # "" THEN InitFail(w2.err, w2.bytes, f.pos)
    ELSE InitFinish(w2.bytes, f.pos, b1.blob, b2.blob)

\* lines 315-316, w1 being the channel after the first write
WriteInit2(f, b1, w1, b2) ==
    IF w1.err # "" THEN InitFail(w1.err, w1.bytes, f.pos)
    ELSE IF b2.err # "" THEN InitFail(b2.err, w1.bytes, f.pos)
    ELSE WriteInit3(f, b1, b2, BlobFile_write(w1.bytes, b2.blob))

\* lines 313-314, b1 being Blob( 'BLOB', blobver )
WriteInit1(f, filetype, version, b1) ==
    IF b1.err # "" THEN InitFail(b1.err, f.bytes, f.pos)
    ELSE WriteInit2(f, b1, BlobFile_write(f.bytes, b1.blob),
                    Blob_init(filetype.b, version, PyNone, ""))

\* BlobFile.__init__( fd, spec, filetype, version, blobver ):
\* [err, bytes, pos, blobheader, header].  filetype is PyNone or a PyStr.
BlobFile_init(f, spec, filetype, version, blobver) ==
    IF f.readable /\ Truthy(filetype)
    THEN ReadInit1(f, spec, filetype, version, blobver,
                   BlobFile_read(f.bytes, f.pos, spec))
    ELSE IF f.writable /\ Truthy(filetype)
    THEN WriteInit1(f, filetype, version, Blob_init(BLOB, blobver, PyNone, ""))
    ELSE InitFinish(f.bytes, f.pos, NoneUnit, NoneUnit)

----------------------------------------------------------------------------
(* Bounds and the values the modelled callers use *)

\* top-level units on a channel
MaxTop == 2
\* children of one group
MaxKids == 2
\* chunks on a channel whose header is being negotiated
MaxHdr == 3
\* write() calls of one writer
MaxWrites == 2
\* children a caller puts into the group whose index is studied
MaxData == 3
\* magnitude of the integers a caller stores
MaxInt == 130
\* explicit size argument of the Blob constructor
MaxWidth == 2

LIST == <<76, 73, 83, 84>>
PAIR == <<80, 65, 73, 82>>
SEQ_ == <<83, 69, 81, 32>>
END_ == <<69, 78, 68, 32>>
NUM_ == <<78, 85, 77, 32>>
RAW_ == <<82, 65, 87, 32>>
TEST == <<84, 69, 83, 84>>

\* { 'LIST': list, 'PAIR': 2, 'SEQ ': 'END ', 'NUM ': int }
FullSpec ==
    (LIST :> BtList) @@ (PAIR :> BtCount(2)) @@ (SEQ_ :> BtUntil(END_))
        @@ (NUM_ :> BtType("int"))

\* {}
EmptySpec == <<>>

SeqsUpTo(S, n) == UNION {[1..k -> S] : k \in 0..n}

----------------------------------------------------------------------------
(* The producer of a channel, after the wire format: what a stream of units
   is, as trees [sig, payload, kids, term].  kids and term are empty for a
   chunk; a group's payload is that of its opening chunk. *)

Tree(sig, payload, kids, term) ==
    [sig |-> sig, payload |-> payload, kids |-> kids, term |-> term]

\* chunk := signature size payload
ChunkWire(sig, payload) == sig \o BigEndian(Len(payload), 4) \o payload

RECURSIVE TreeWire(_)
RECURSIVE TreesWire(_)
TreeWire(t) == ChunkWire(t.sig, t.payload) \o TreesWire(t.kids) \o TreesWire(t.term)
TreesWire(ts) == IF ts = <<>> THEN <<>> ELSE TreeWire(Head(ts)) \o TreesWire(Tail(ts))

Leaves == {Tree(NUM_, <<0>>, <<>>, <<>>), Tree(END_, <<>>, <<>>, <<>>)}

\* the groups FullSpec describes, with children from pool
GroupsOver(pool) ==
    {Tree(LIST, BigEndian(Len(k), 4), k, <<>>) : k \in SeqsUpTo(pool, MaxKids)}
    \cup {Tree(PAIR, <<9>>, k, <<>>) : k \in [1..2 -> pool]}
    \cup {Tree(SEQ_, <<>>, k, <<Tree(END_, <<>>, <<>>, <<>>)>>) :
            k \in SeqsUpTo({t \in pool : t.sig # END_}, MaxKids)}

Flat == Leaves \cup GroupsOver(Leaves)

\* channels: a few shallow units, or one unit with groups inside groups
Channels == SeqsUpTo(Flat, MaxTop) \cup {<<g>> : g \in GroupsOver(Flat)}

\* the two header chunks a producer writes for file type TEST
HeaderWire == ChunkWire(BLOB, <<1>>) \o ChunkWire(TEST, <<1>>)

\* units the chunks of a header negotiation are drawn from
HeaderChunks ==
    {Tree(s, p, <<>>, <<>>) : s \in {BLOB, TEST}, p \in {<<>>, <<0>>, <<2>>}}
    \cup {Tree(NUM_, <<0>>, <<>>, <<>>)}

\* what a writer passes to write()
WriteChunks ==
    {Blob_init(NUM_, PyInt(1), PyNone, "").blob,
     Blob_init(END_, PyNone, PyNone, "").blob}

WriteGroupsOver(pool) ==
    {BlobGroup_init(LIST, k, PyNone).blob : k \in SeqsUpTo(pool, MaxKids)}

WritePool(a) ==
    IF Truthy(a.filetype)
    THEN WriteChunks \cup WriteGroupsOver(WriteChunks)
    ELSE WriteChunks \cup WriteGroupsOver(WriteChunks \cup WriteGroupsOver(WriteChunks))

----------------------------------------------------------------------------
(* The stream: one BlobFile over one channel *)

NoFile == [spec |-> <<>>, blobheader |-> NoneUnit, header |-> NoneUnit]
NoArgs == [spec |-> <<>>, filetype |-> PyNone, version |-> PyNone, blobver |-> PyNone]
NoSrc == [units |-> <<>>, hdr |-> 0, cut |-> FALSE, written |-> <<>>]

NoGot == [dtype |-> "", err |-> "", v |-> PyNone]
NoRes ==
    [op |-> "", key |-> <<>>, i |-> 0, found |-> FALSE, err |-> "", val |-> NoneUnit,
     keys |-> {}, fresh |-> FALSE, live |-> {}]
NoHist == [accessed |-> FALSE, late |-> {}, indexed |-> FALSE, stale |-> {}]

IdleCodec ==
    /\ blob = NoneUnit
    /\ wire = <<>>
    /\ back = [err |-> "", pos |-> 0, u |-> NoneUnit]
    /\ got = NoGot

IdleGroup ==
    /\ grp = [data |-> <<>>, dict |-> <<>>]
    /\ res = NoRes
    /\ hist = NoHist

IdleStream ==
    /\ fd = [bytes |-> <<>>, pos |-> 0, readable |-> FALSE, writable |-> FALSE]
    /\ file = NoFile
    /\ out = <<>>
    /\ src = NoSrc

Reader(bytes) == [bytes |-> bytes, pos |-> 0, readable |-> TRUE, writable |-> FALSE]

\* a reader is about to open a well-formed channel, with or without headers
InitRead ==
    /\ pc = "new"
    /\ \E us \in Channels, neg \in BOOLEAN :
        /\ fd = Reader((IF neg THEN HeaderWire ELSE <<>>) \o TreesWire(us))
        /\ src = [NoSrc EXCEPT !.units = us, !.hdr = IF neg THEN Len(HeaderWire) ELSE 0]
        /\ args = [spec |-> FullSpec,
                   filetype |-> IF neg THEN PyStr(TEST) ELSE PyNone,
                   version |-> IF neg THEN PyInt(1) ELSE PyNone,
                   blobver |-> IF neg THEN PyInt(1) ELSE PyNone]
    /\ file = NoFile /\ err = "" /\ out = <<>>
    /\ IdleCodec /\ IdleGroup

\* a reader is about to open a channel that was cut short
InitTrunc ==
    /\ pc = "new"
    /\ \E us \in SeqsUpTo(Flat, MaxTop) \ {<<>>} :
        \E n \in 0..(Len(TreesWire(us)) - 1) :
            /\ fd = Reader(SubSeq(TreesWire(us), 1, n))
            /\ src = [NoSrc EXCEPT !.units = us, !.cut = TRUE]
    /\ args = [NoArgs EXCEPT !.spec = FullSpec]
    /\ file = NoFile /\ err = "" /\ out = <<>>
    /\ IdleCodec /\ IdleGroup

\* a reader is about to negotiate the header of an arbitrary chunk stream
InitOpen ==
    /\ pc = "new"
    /\ \E us \in SeqsUpTo(HeaderChunks, MaxHdr) :
        /\ fd = Reader(TreesWire(us))
        /\ src = [NoSrc EXCEPT !.units = us]
    /\ \E v \in {PyNone, PyInt(1)}, bv \in {PyNone, PyInt(1)} :
        args = [spec |-> EmptySpec, filetype |-> PyStr(TEST),
                version |-> v, blobver |-> bv]
    /\ file = NoFile /\ err = "" /\ out = <<>>
    /\ IdleCodec /\ IdleGroup

\* a writer is about to open an empty channel
InitWrite ==
    /\ pc = "new"
    /\ fd = [bytes |-> <<>>, pos |-> 0, readable |-> FALSE, writable |-> TRUE]
    /\ src = NoSrc
    /\ \E ft \in {PyNone, PyStr(TEST)} :
       \E v \in {PyNone, PyInt(0), PyInt(1)}, bv \in {PyNone, PyInt(0), PyInt(1)} :
        /\ (ft = PyNone => v = PyNone /\ bv = PyNone)
        /\ args = [spec |-> EmptySpec, filetype |-> ft, version |-> v, blobver |-> bv]
    /\ file = NoFile /\ err = "" /\ out = <<>>
    /\ IdleCodec /\ IdleGroup

\* the caller's view once the constructor returned r
Opened(r) ==
    /\ fd' = [fd EXCEPT !.bytes = r.bytes, !.pos = r.pos]
    /\ err' = r.err
    /\ pc' = IF r.err = "" THEN "open" ELSE "failed"
    /\ file' = IF r.err = ""
               THEN [spec |-> args.spec, blobheader |-> r.blobheader, header |-> r.header]
               ELSE NoFile

\* BlobFile( fd, spec, filetype, version, blobver )
Open ==
    /\ pc = "new"
    /\ Opened(BlobFile_init(fd, args.spec, args.filetype, args.version, args.blobver))
    /\ UNCHANGED <<args, out, src, codecVars, groupVars>>

\* the caller's view once read() returned r; stop says the caller's loop ends
Returned(r, stop, ended) ==
    /\ fd' = [fd EXCEPT !.pos = r.pos]
    /\ err' = r.err
    /\ pc' = IF r.err # "" THEN "failed" ELSE IF stop THEN ended ELSE "open"
    /\ out' = IF r.err # "" \/ (stop /\ ended = "stop") THEN out
              ELSE Append(out, [u |-> r.u, at |-> r.pos])

ReadReturned(r) == Returned(r, r.u.cls = "None", "eof")

\* unit = f.read(), in a loop the caller leaves at None
Read ==
    /\ pc = "open"
    /\ fd.readable
    /\ ReadReturned(BlobFile_read(fd.bytes, fd.pos, file.spec))
    /\ UNCHANGED <<args, file, src, codecVars, groupVars>>

\* BlobFile.__next__: StopIteration when what read() returned == None
NextReturned(r) == Returned(r, EqNone(r.u), "stop")

\* unit = next( f ), as a for loop calls it
IterNext ==
    /\ pc = "open"
    /\ fd.readable
    /\ NextReturned(BlobFile_read(fd.bytes, fd.pos, file.spec))
    /\ UNCHANGED <<args, file, src, codecVars, groupVars>>

Written(u, w) ==
    /\ fd' = [fd EXCEPT !.bytes = w.bytes]
    /\ err' = w.err
    /\ pc' = IF w.err = "" THEN "open" ELSE "failed"
    /\ src' = [src EXCEPT !.written = Append(src.written, u)]

\* f.write( u )
Write ==
    /\ pc = "open"
    /\ fd.writable
    /\ Len(src.written) < MaxWrites
    /\ \E u \in WritePool(args) : Written(u, BlobFile_write(fd.bytes, u))
    /\ UNCHANGED <<args, file, out, codecVars, groupVars>>

\* the writer closes the file and a reader is about to open it, every group
\* signature given as list in its spec
Reopen ==
    /\ pc = "open"
    /\ fd.writable
    /\ fd' = Reader(fd.bytes)
    /\ args' = [args EXCEPT !.spec = (LIST :> BtList)]
    /\ pc' = "new"
    /\ file' = NoFile
    /\ UNCHANGED <<err, out, src, codecVars, groupVars>>

NextRead == Open \/ Read \/ IterNext
NextWrite == Open \/ Write \/ Reopen \/ Read \/ IterNext

SpecRead == InitRead /\ [][NextRead]_vars
SpecTrunc == InitTrunc /\ [][NextRead]_vars
SpecOpen == InitOpen /\ [][NextRead]_vars
SpecWrite == InitWrite /\ [][NextWrite]_vars

----------------------------------------------------------------------------
(* The codec: one Blob built from typed content, encoded, read back *)

\* what a caller passes as content
Contents ==
    {PyNone, PyBool(TRUE), PyBool(FALSE)}
    \cup {PyInt(v) : v \in (-MaxInt)..MaxInt}
    \cup {PyStr(t) : t \in {<<>>, <<65>>, <<233>>, <<65, 233>>}}
    \cup {PyBytes(t) : t \in {<<>>, <<7>>, <<0, 255>>}}

\* what a caller passes as size
Sizes == {PyNone} \cup {PyInt(w) : w \in 0..MaxWidth}

InitCodec ==
    /\ pc = "args"
    /\ \E c \in Contents, z \in Sizes : args = [sig |-> RAW_, content |-> c, size |-> z]
    /\ err = ""
    /\ IdleCodec /\ IdleGroup /\ IdleStream

Constructed(r) ==
    /\ blob' = r.blob
    /\ err' = r.err
    /\ pc' = IF r.err = "" THEN "built" ELSE "raised"

\* blob = Blob( sig, content, size )
Construct ==
    /\ pc = "args"
    /\ Constructed(Blob_init(args.sig, args.content, args.size, ""))
    /\ UNCHANGED <<args, wire, back, got, groupVars, streamVars>>

\* blob.getAs( dtype ), for a payload whose integer value is below 2^31
GetAs ==
    /\ pc = "built"
    /\ blob.contentRaw.t = "bytes" => Representable(blob.contentRaw.b)
    /\ \E dtype \in {"int", "str", "bytes", "bool", "none"} :
        got' = [dtype |-> dtype] @@ Blob_getAs(blob, dtype)
    /\ UNCHANGED <<pc, args, err, blob, wire, back, groupVars, streamVars>>

Encoded(e) ==
    /\ wire' = e.b
    /\ err' = e.err
    /\ pc' = IF e.err = "" THEN "encoded" ELSE "raised"

\* wire = blob.encode()
Encode ==
    /\ pc = "built"
    /\ Encoded(Blob_encode(blob))
    /\ UNCHANGED <<args, blob, back, got, groupVars, streamVars>>

\* back = BlobFile( BytesIO( wire ) ).read()
Decode ==
    /\ pc = "encoded"
    /\ back' = BlobFile_read(wire, 0, EmptySpec)
    /\ pc' = "decoded"
    /\ UNCHANGED <<args, err, blob, wire, got, groupVars, streamVars>>

NextCodec == Construct \/ GetAs \/ Encode \/ Decode

SpecCodec == InitCodec /\ [][NextCodec]_vars

----------------------------------------------------------------------------
(* The group: one BlobGroup, its children appended by the caller *)

\* children a caller appends
Kids ==
    {Blob_init(NUM_, PyInt(1), PyNone, "").blob,
     Blob_init(NUM_, PyInt(2), PyNone, "").blob,
     Blob_init(RAW_, PyNone, PyNone, "").blob,
     Blob_init(END_, PyNone, PyNone, "").blob}

Keys == {NUM_, RAW_, END_}

SigsOf(data) == {data[i].sig : i \in 1..Len(data)}

\* grp = BlobGroup( 'LIST', children )
InitGroup ==
    /\ pc = "group"
    /\ \E k \in SeqsUpTo(Kids, 1) : grp = [data |-> k, dict |-> <<>>]
    /\ res = NoRes
    /\ hist = NoHist
    /\ args = NoArgs
    /\ err = ""
    /\ IdleCodec /\ IdleStream

\* what the caller has done, after a signature-keyed access
Accessed ==
    [hist EXCEPT !.accessed = TRUE, !.indexed = hist.indexed \/ grp.data # <<>>]

\* the caller's view after a signature-keyed access that left dict as d
Looked(op, key, d) ==
    /\ grp' = [grp EXCEPT !.dict = d]
    /\ res' = [NoRes EXCEPT !.op = op, !.key = key,
                            !.found = key \in DOMAIN d,
                            !.err = IF op = "getitem" /\ key \notin DOMAIN d
                                    THEN "KeyError" ELSE "",
                            !.val = IF op = "getitem" /\ key \in DOMAIN d
                                    THEN d[key] ELSE NoneUnit,
                            !.keys = IF op \in {"keys", "items"} THEN DOMAIN d ELSE {},
                            !.fresh = ~hist.accessed,
                            !.live = SigsOf(grp.data)]
    /\ hist' = Accessed

\* key in grp
Contains ==
    /\ \E key \in Keys : Looked("in", key, genDict(grp))
    /\ UNCHANGED <<pc, args, err, codecVars, streamVars>>

\* grp[key], key a str
GetItemStr ==
    /\ \E key \in Keys : Looked("getitem", key, genDict(grp))
    /\ UNCHANGED <<pc, args, err, codecVars, streamVars>>

\* grp.keys()
KeysCall ==
    /\ Looked("keys", <<>>, genDict(grp))
    /\ UNCHANGED <<pc, args, err, codecVars, streamVars>>

\* grp.items()
ItemsCall ==
    /\ Looked("items", <<>>, genDict(grp))
    /\ UNCHANGED <<pc, args, err, codecVars, streamVars>>

\* grp[i], i an int (0-based)
GetItemInt ==
    /\ \E i \in 0..(MaxData - 1) :
        res' = [NoRes EXCEPT !.op = "index", !.i = i,
                             !.found = i < Len(grp.data),
                             !.err = IF i < Len(grp.data) THEN "" ELSE "IndexError",
                             !.val = IF i < Len(grp.data) THEN grp.data[i + 1]
                                     ELSE NoneUnit]
    /\ UNCHANGED <<pc, args, err, grp, hist, codecVars, streamVars>>

\* grp.append( b )
AppendKid ==
    /\ Len(grp.data) < MaxData
    /\ \E b \in Kids :
        /\ grp' = [grp EXCEPT !.data = Append(grp.data, b)]
        /\ hist' = [hist EXCEPT
                      !.late = IF hist.accessed /\ b.sig \notin SigsOf(grp.data)
                               THEN hist.late \cup {b.sig} ELSE hist.late,
                      !.stale = IF hist.indexed /\ b.sig \notin SigsOf(grp.data)
                                THEN hist.stale \cup {b.sig} ELSE hist.stale]
    /\ UNCHANGED <<pc, args, err, res, codecVars, streamVars>>

\* grp.clearDict()
ClearDict ==
    /\ grp' = [grp EXCEPT !.dict = clearDict(grp)]
    /\ hist' = NoHist
    /\ UNCHANGED <<pc, args, err, res, codecVars, streamVars>>

NextGroup ==
    Contains \/ GetItemStr \/ KeysCall \/ ItemsCall \/ GetItemInt \/ AppendKid \/ ClearDict

SpecGroup == InitGroup /\ [][NextGroup]_vars

----------------------------------------------------------------------------
(* What the producer put on the channel, against what read() returned *)

IsGroupTree(t) == SpecGet(FullSpec, t.sig).k \in {"list", "count", "until"}

\* the unit u is the tree t: same signature, same payload, the same children
\* in the same order, the same terminator
RECURSIVE MatchesTree(_, _)
MatchesTree(u, t) ==
    IF IsGroupTree(t)
    THEN /\ u.cls = "BlobGroup"
         /\ u.sig = t.sig
         /\ Len(u.data) = Len(t.kids)
         /\ \A j \in 1..Len(t.kids) : MatchesTree(u.data[j], t.kids[j])
         /\ Len(u.terminator) = Len(t.term)
         /\ \A j \in 1..Len(t.term) : MatchesTree(u.terminator[j], t.term[j])
    ELSE /\ u.cls = "Blob"
         /\ u.sig = t.sig
         /\ u.size = Len(t.payload)
         /\ u.contentRaw = IF t.payload = <<>> THEN PyNone ELSE PyBytes(t.payload)

\* offset of the byte after the i-th top-level unit
EndOf(i) == src.hdr + Len(TreesWire(SubSeq(src.units, 1, i)))

\* None is among the children of u, at any depth
RECURSIVE HasNone(_)
HasNone(u) ==
    \/ \E j \in 1..Len(u.data) : u.data[j].cls = "None" \/ HasNone(u.data[j])
    \/ \E j \in 1..Len(u.terminator) : HasNone(u.terminator[j])

\* u, read where the producer wrote t, holds a chunk whose payload is shorter
\* than the size the producer declared for it
RECURSIVE ShortPayload(_, _)
ShortPayload(u, t) ==
    IF u.cls = "Blob" THEN Len(u.contentRaw.b) < Len(t.payload)
    ELSE \/ \E j \in 1..Min(Len(u.data), Len(t.kids)) : ShortPayload(u.data[j], t.kids[j])
         \/ \E j \in 1..Min(Len(u.terminator), Len(t.term)) :
                ShortPayload(u.terminator[j], t.term[j])

\* the channel ends inside a top-level unit
Incomplete ==
    /\ src.cut
    /\ \A k \in 0..Len(src.units) : Len(fd.bytes) # EndOf(k)

\* two units a caller would call the same: signature, declared size, raw
\* payload, and for groups the children in order
RECURSIVE SameUnit(_, _)
SameUnit(u, w) ==
    /\ u.cls = w.cls
    /\ u.sig = w.sig
    /\ IF w.cls = "BlobGroup"
       THEN /\ Len(u.data) = Len(w.data)
            /\ \A j \in 1..Len(w.data) : SameUnit(u.data[j], w.data[j])
       ELSE u.size = w.size /\ u.contentRaw = w.contentRaw

----------------------------------------------------------------------------
(* Claims *)

\* C1 (as claimed): a group written with BlobGroup.encode and read back under a
\* spec giving its signature as list has the same children in the same order
\* and, as content, their number.
C1_ListRoundTrip ==
    fd.readable =>
        \A i \in 1..Min(Len(out), Len(src.written)) :
            src.written[i].cls = "BlobGroup" =>
                /\ SameUnit(out[i].u, src.written[i])
                /\ out[i].u.content = PyInt(Len(src.written[i].data))

\* the part of C1 about the children alone
C1_ChildrenRoundTrip ==
    fd.readable =>
        \A i \in 1..Min(Len(out), Len(src.written)) :
            SameUnit(out[i].u, src.written[i])

\* C2 (as claimed): on a channel that ends inside a unit, reading fails with a
\* truncated-data error: the caller never reaches the end of the stream, no
\* other exception is raised, and no read returns a unit the channel does not
\* hold whole, a chunk with a payload shorter than declared or a group with
\* None among its children.
C2_TruncatedIsFatal ==
    Incomplete =>
        /\ pc \notin {"eof", "stop"}
        /\ err \in {"", "TruncatedData"}
        /\ \A i \in 1..Min(Len(out), Len(src.units)) :
            /\ EndOf(i) <= Len(fd.bytes)
            /\ ~HasNone(out[i].u)
            /\ ~ShortPayload(out[i].u, src.units[i])

\* the outcome C3 gives for opening the chunks us with the arguments a
ClaimedOutcome(us, a) ==
    IF us = <<>> \/ us[1].sig # BLOB THEN "FileTypeError"
    ELSE IF a.blobver.t # "none" /\ us[1].payload # <<>>
            /\ Unsigned(us[1].payload) < a.blobver.n THEN "VersionError"
    ELSE IF Len(us) < 2 \/ us[2].sig # a.filetype.b THEN "FileTypeError"
    ELSE IF a.version.t # "none" /\ us[2].payload # <<>>
            /\ Unsigned(us[2].payload) > a.version.n THEN "VersionError"
    ELSE ""

\* C3 (as claimed): opening for read with a file type ends as the four steps
\* say, for every stream, and on success both header chunks are retained.
C3_OpenOutcome ==
    (pc # "new" /\ fd.readable /\ Truthy(args.filetype)) =>
        /\ err = ClaimedOutcome(src.units, args)
        /\ err = "" => /\ file.blobheader.cls = "Blob" /\ file.blobheader.sig = BLOB
                       /\ file.header.cls = "Blob" /\ file.header.sig = args.filetype.b

\* payload of a header chunk carrying the version v
VersionPayload(v) == IF v.t = "none" THEN <<>> ELSE BigEndian(v.n, 4)

\* C4 (as claimed): opening a writable channel with a file type succeeds
\* whatever blobver and version are, and the channel then holds the two header
\* chunks followed by the encodings of the units written, in call order.
C4_WriteOpenSucceeds ==
    (pc # "new" /\ fd.writable /\ Truthy(args.filetype)) =>
        /\ err = ""
        /\ fd.bytes = ChunkWire(BLOB, VersionPayload(args.blobver))
                      \o ChunkWire(args.filetype.b, VersionPayload(args.version))
                      \o Concat([i \in 1..Len(src.written) |->
                                    Unit_encode(src.written[i]).b])

C6_ChunkRoundTrip ==
    pc = "decoded" =>
        /\ back.err = ""
        /\ back.u.cls = "Blob"
        /\ back.u.sig = blob.sig
        /\ back.u.size = blob.size
        /\ back.u.contentRaw = blob.contentRaw
        /\ back.pos = Len(wire)

\* C7 (as claimed): with no size given, a chunk has size 0 and no payload for
\* absent content, size 1 (a byte 0 or 1) for a boolean, size 4 (big-endian
\* two's complement) for an integer, the encoded length for text and bytes.
C7_DefaultSizes ==
    (pc = "built" /\ args.size.t = "none") =>
        CASE args.content.t = "none" -> blob.size = 0 /\ blob.contentRaw = PyNone
          [] args.content.t = "bool" ->
                blob.size = 1 /\ blob.contentRaw = PyBytes(<<args.content.n>>)
          [] args.content.t = "int" ->
                blob.size = 4 /\ blob.contentRaw = PyBytes(BigEndian(args.content.n, 4))
          [] args.content.t = "str" ->
                /\ blob.size = Len(Utf8Encode(args.content.b))
                /\ blob.contentRaw = PyBytes(Utf8Encode(args.content.b))
          [] OTHER -> blob.size = Len(args.content.b) /\ blob.contentRaw = args.content

\* C8: reading "S header, u1 .. uk, m" under a spec giving S the marker M
\* returns a group whose children are u1 .. uk in order, none of them carrying
\* M, whose terminator is m, and leaves the channel at the byte after m;
\* nothing is raised.
C8_TerminatorGroup ==
    /\ pc # "failed"
    /\ \A i \in 1..Min(Len(out), Len(src.units)) :
        SpecGet(FullSpec, src.units[i].sig).k = "until" =>
            /\ out[i].u.cls = "BlobGroup"
            /\ Len(out[i].u.data) = Len(src.units[i].kids)
            /\ \A j \in 1..Len(src.units[i].kids) :
                /\ MatchesTree(out[i].u.data[j], src.units[i].kids[j])
                /\ out[i].u.data[j].sig # SpecGet(FullSpec, src.units[i].sig).s
            /\ Len(out[i].u.terminator) = 1
            /\ MatchesTree(out[i].u.terminator[1], src.units[i].term[1])
            /\ out[i].u.terminator[1].sig = SpecGet(FullSpec, src.units[i].sig).s
            /\ out[i].at = EndOf(i)
            /\ (i = Len(out) => fd.pos = EndOf(i))

\* a terminator group with two children, one of them a group holding a chunk
\* with the marker's signature, has been read
C8_Witness ==
    \E i \in 1..Len(out) :
        /\ out[i].u.sig = SEQ_
        /\ Len(out[i].u.data) = 2
        /\ out[i].u.terminator # <<>>
        /\ \E j \in 1..2 :
            /\ out[i].u.data[j].cls = "BlobGroup"
            /\ \E k \in 1..Len(out[i].u.data[j].data) : out[i].u.data[j].data[k].sig = END_

\* C9: on a well-formed stream, opened with or without header negotiation,
\* read() and iteration give every top-level unit after the header chunks once
\* and in order and then end (None, or StopIteration); nothing is raised; an
\* empty group or a chunk with content zero does not end them.
C9_Iteration ==
    /\ pc # "failed"
    /\ Len(out) <= Len(src.units) + 1
    /\ \A i \in 1..Len(out) :
        IF i <= Len(src.units)
        THEN MatchesTree(out[i].u, src.units[i]) /\ out[i].at = EndOf(i)
        ELSE out[i].u = NoneUnit
    /\ pc = "eof" => Len(out) = Len(src.units) + 1
    /\ pc = "stop" => Len(out) = Len(src.units)
    /\ pc = "open" => Len(out) <= Len(src.units)
    /\ (pc \in {"open", "eof", "stop"} /\ src.hdr > 0) =>
        file.blobheader.sig = BLOB /\ file.header.sig = TEST

\* an iteration over a stream with headers has ended after giving an empty
\* group and a chunk whose content is zero
C9_Witness ==
    /\ pc = "stop"
    /\ src.hdr > 0
    /\ Len(out) = 2
    /\ out[1].u.cls = "BlobGroup" /\ out[1].u.data = <<>>
    /\ out[2].u.cls = "Blob" /\ out[2].u.content = PyInt(0)

\* v fits in w bytes of signed two's complement
Fits(v, w) == -Radix(w) <= 2 * v /\ 2 * v < Radix(w)

====
